---- MODULE Spec2Model ----
(***************************************************************************)
(* State-machine model of the PicoScope 3000A acquisition scripts:         *)
(*   "docs" : ps3000a_docsV2_sonn3.7.py  rapid block, single shot, every   *)
(*            setup call wrapped in assert_pico_ok (ps3000atest_o4.py has  *)
(*            the same control flow);                                      *)
(*   "t45"  : ps3000atest_4.5.py         rapid block in a while-True loop, *)
(*            device statuses ignored, try/except/finally around the loop; *)
(*   "sonn" : ps3000atest_sonn.py        streaming with a polled callback. *)
(* One action is one device call together with the host code that runs up  *)
(* to the next device call.  The device is the environment: every status   *)
(* and every value it writes back is a nondeterministic choice.            *)
(***************************************************************************)
EXTENDS Integers, Sequences, FiniteSets, TLC

\* ---------------------------------------------------------------- bounds
\* Scaled-down configuration (the scripts use 32 segments, 10000/500000
\* samples, a 1000-sample ring, 5 buffers, 1000 iterations).
NUM_SEGMENTS == 2
SAMPLES_PER_SEGMENT == 2
MaxPolls == 2
MaxCaptures == 2
sizeOfOneBuffer == 3
numBuffersToCapture == 2
max_iterations == 2
\* the margin added to samples_needed (100 in the script), scaled like the
\* sample counts
samples_margin == 1

\* ------------------------------------------------------ program constants
\* status codes named in open_scope
PICO_OK == 0
PICO_POWER_SUPPLY_NOT_CONNECTED == 282
PICO_USB3_0_DEVICE_NON_USB3_0_PORT == 286
\* indices of PS3000A_1V, PS3000A_10V and PS3000A_2V in PS3000A_RANGE
RANGE_A == 6
RANGE_B == 9
channel_range == 7
\* THRESHOLD_V = 4.5, in tenths of a volt
THRESHOLD_DECIVOLTS == 45
max_voltage_range == 10
\* int(4.5 / 10.0 * 32767)
T45_THRESHOLD == 14745
\* sampleInterval = ctypes.c_int32(250)
requestedSampleInterval == 250
\* time_required_ns = 1_000_000
time_required_ns == 1000000
\* THRESHOLD_V is a float; a level is kept as a whole number of quarter
\* millivolts, finer than one ADC code of the 10 V range
UnitsPerVolt == 4000

\* ------------------------------------------------- device value domains
\* a status is success, or some fatal code (3 stands for all of them); the
\* open call can also return one of the two power-state codes
FatalStatuses == {3}
PowerCodes == {PICO_POWER_SUPPLY_NOT_CONNECTED,
               PICO_USB3_0_DEVICE_NON_USB3_0_PORT}
Statuses == {PICO_OK} \cup FatalStatuses
OpenStatuses == Statuses \cup PowerCodes
MaxAdcValues == {32767, 32512}
\* per-segment maximum MemorySegments may report: below, at and above the
\* configured SAMPLES_PER_SEGMENT
SegMaxValues == {SAMPLES_PER_SEGMENT - 1, SAMPLES_PER_SEGMENT,
                 SAMPLES_PER_SEGMENT + 1}
SampleIntervals == {250, 256}
\* sample intervals GetTimebase2 may report, in ns: one that makes the
\* capture window need more samples than any segment holds, one that
\* makes it need no more than the margin
TimeIntervalsNs == {250000, 2000000}
\* values of the THRESHOLD_V setting: the 4.5 V of the script, 4.6 V, zero,
\* the smallest positive level, a negative level, and a level 2 V beyond
\* the range of the trigger channel
ThresholdSettings ==
  {THRESHOLD_DECIVOLTS * (UnitsPerVolt \div 10),
   (THRESHOLD_DECIVOLTS + 1) * (UnitsPerVolt \div 10),
   0, 1, -(THRESHOLD_DECIVOLTS * (UnitsPerVolt \div 10)),
   (max_voltage_range + 2) * UnitsPerVolt}
\* the sampled input: the code the device holds at position 0 of channel A
\* and of channel B; later positions, and later segments, hold other codes
signal == <<1200, -4000>>

Programs == {"docs", "t45", "sonn"}
Segments == 0 .. (NUM_SEGMENTS - 1)
totalSamples == sizeOfOneBuffer * numBuffersToCapture

VARIABLES
  prog,          \* which script runs
  THRESHOLD_V,   \* docs: the configured trigger level, in 1/UnitsPerVolt volt
  deviceMaxADC,  \* device side: the maximum ADC code of the unit
  pc,            \* position of the control thread
  error,         \* exception that reached the caller, "none" if none
  pending,       \* t45: exception in flight while the finally block runs
  interrupted,   \* the external cancellation (KeyboardInterrupt) has arrived
  opened,        \* open_scope / the open block has completed successfully
  calls,         \* device calls issued so far, <<name, arg1, arg2>>, in order
  status,        \* open: the status variable of the open block
  powerState,    \* the power-state code OpenUnit returned (powerstate)
  pollStatus,    \* status returned by the readiness / latest-values poll
  setupFailed,   \* some setup call has returned a non-zero status
  bulkStatus,    \* status returned by the last GetValuesBulk
  maxADC,        \* value of the maxADC c_int16 currently in scope
  thr_count,     \* threshold passed to SetSimpleTrigger
  seg_max,       \* maxSamples written back by MemorySegments
  n_samples,     \* samples per segment in use
  bufs_a, bufs_b,\* host buffers, one per segment
  registered,    \* device side: (segment, channel) -> registered buffer
  idx,           \* loop index of the registration / save loops
  ready,         \* the ready c_int16
  polls,         \* readiness polls issued in the current wait loop
  samples_ret,   \* samples per segment written back by GetValuesBulk
  overflow,      \* overflow flag array written by GetValuesBulk
  files,         \* CSV files written so far
  printed,       \* console messages, <<tag, value>>
  captures,      \* t45: completed passes of the while-True loop
  bufferAMax, bufferBMax,  \* sonn: the ring buffers
  actualSampleIntervalNs,
  nextSample, autoStopOuter, wasCalledBack, buffers_captured,
  file_counter, iteration_count,
  delivered      \* sonn: what the device handed to each callback

rapidVars == <<seg_max, n_samples, bufs_a, bufs_b, registered, idx, ready,
               polls, samples_ret, overflow, captures, thr_count>>
streamVars == <<bufferAMax, bufferBMax, actualSampleIntervalNs, nextSample,
                autoStopOuter, wasCalledBack, buffers_captured, file_counter,
                iteration_count, delivered>>
ctlVars == <<prog, THRESHOLD_V, deviceMaxADC, pollStatus, pc, error, pending, interrupted, opened, calls, status, powerState,
             setupFailed, bulkStatus, maxADC, files, printed>>
vars == <<ctlVars, rapidVars, streamVars>>

\* ---------------------------------------------------------------- helpers
Min(a, b) == IF a <= b THEN a ELSE b

Zeros(n) == [i \in 1 .. n |-> 0]

\* python slice s[lo:hi] on a 0-based array held as a 1-based sequence
Slice(s, lo, hi) ==
  LET l == IF lo > Len(s) THEN Len(s) ELSE lo
      h == IF hi > Len(s) THEN Len(s) ELSE hi
  IN IF h <= l THEN << >> ELSE SubSeq(s, l + 1, h)

\* picosdk.functions.adc2mV: (x * vRange) / maxADC for every x; a value is
\* kept as the exact fraction <<numerator, denominator>>
channelInputRanges ==
  <<10, 20, 50, 100, 200, 500, 1000, 2000, 5000, 10000, 20000, 50000>>

adc2mV(bufferADC, range, maxAdcValue) ==
  [i \in 1 .. Len(bufferADC) |->
     <<bufferADC[i] * channelInputRanges[range + 1], maxAdcValue>>]

\* picosdk.functions.assert_pico_ok raises unless the status is PICO_OK
assert_pico_ok(st) == st = PICO_OK

Call(name, a, b) == calls' = Append(calls, <<name, a, b>>)

\* a poll repeated in a loop is kept once in the call record
CallPoll(name) ==
  calls' = IF calls # << >> /\ calls[Len(calls)][1] = name
           THEN calls ELSE Append(calls, <<name, 0, 0>>)

Raise(e) == /\ pc' = "raised"
            /\ error' = e

NoBuf == <<"none", 0>>

Init ==
  /\ prog \in Programs
  /\ THRESHOLD_V \in (IF prog = "docs" THEN ThresholdSettings
                     ELSE {THRESHOLD_DECIVOLTS * (UnitsPerVolt \div 10)})
  /\ deviceMaxADC \in MaxAdcValues
  /\ pc = "open"
  /\ error = "none"
  /\ pending = "none"
  /\ interrupted = FALSE
  /\ opened = FALSE
  /\ calls = << >>
  /\ status = PICO_OK
  /\ powerState = 0
  /\ pollStatus = PICO_OK
  /\ setupFailed = FALSE
  /\ bulkStatus = PICO_OK
  /\ maxADC = 0
  /\ thr_count = 0
  /\ seg_max = 0
  /\ n_samples = 0
  /\ bufs_a = << >>
  /\ bufs_b = << >>
  /\ registered = [k \in Segments \X {"A", "B"} |-> NoBuf]
  /\ idx = 0
  /\ ready = 0
  /\ polls = 0
  /\ samples_ret = 0
  /\ overflow = Zeros(NUM_SEGMENTS)
  /\ files = << >>
  /\ printed = {}
  /\ captures = 0
  /\ bufferAMax = Zeros(sizeOfOneBuffer)
  /\ bufferBMax = Zeros(sizeOfOneBuffer)
  /\ actualSampleIntervalNs = 0
  /\ nextSample = 0
  /\ autoStopOuter = FALSE
  /\ wasCalledBack = FALSE
  /\ buffers_captured = 0
  /\ file_counter = 0
  /\ iteration_count = 0
  /\ delivered = << >>

\* ------------------------------------------------------------ device side
\* one overflow flag array: no segment flagged, or the first, or the last
OverflowChoices ==
  {[i \in 1 .. NUM_SEGMENTS |-> IF i = k THEN 1 ELSE 0] :
     k \in {0, 1, NUM_SEGMENTS}}

\* the code the device holds for sample i of segment s on channel ch
DeviceSample(p, s, ch, i) ==
  (IF ch = "A" THEN p[1] ELSE p[2]) + 10 * s + i

\* the (segment, channel) pairs whose registration points at buffer b
BoundTo(b) == {k \in DOMAIN registered : registered[k] = b}

\* the code read back for sample i of segment s on channel ch: where the
\* input went over range (overflow flag ov of the segment set) the first
\* sample is clipped to full scale, +maximum on A and -maximum on B
ClippedSample(p, ov, s, ch, i) ==
  IF ov[s + 1] # 0 /\ i = 0
  THEN (IF ch = "A" THEN deviceMaxADC ELSE -deviceMaxADC)
  ELSE DeviceSample(p, s, ch, i)

\* GetValuesBulk writing n samples of data set p, with overflow flags ov,
\* into one host buffer list
DeviceFill(bufs, list, p, n, ov) ==
  [k \in 1 .. Len(bufs) |->
     IF BoundTo(<<list, k - 1>>) = {} THEN bufs[k]
     ELSE LET sc == CHOOSE x \in BoundTo(<<list, k - 1>>) : TRUE
          IN [i \in 1 .. Len(bufs[k]) |->
                IF i <= n THEN ClippedSample(p, ov, sc[1], sc[2], i - 1)
                ELSE bufs[k][i]]]

\* ------------------------------------------- ps3000a_docsV2_sonn3.7.py
\* mutants of the power-state test: 286 forgotten; any failure taken
D_IsPowerState_Only282(st) == st = PICO_POWER_SUPPLY_NOT_CONNECTED

D_IsPowerState_AnyFailure(st) == st # PICO_OK

\* open_scope: "if status in (282, 286)"
D_IsPowerState(st) ==
  st \in {PICO_POWER_SUPPLY_NOT_CONNECTED, PICO_USB3_0_DEVICE_NON_USB3_0_PORT}

\* open_scope: OpenUnit
D_OpenUnit ==
  /\ prog = "docs" /\ pc = "open"
  /\ \E st \in OpenStatuses :
       /\ status' = st
       /\ Call("OpenUnit", 0, 0)
       /\ IF assert_pico_ok(st)
          THEN /\ pc' = "setChA" /\ opened' = TRUE
               /\ UNCHANGED <<error, powerState>>
          ELSE IF D_IsPowerState(st)
          THEN /\ pc' = "changePower" /\ powerState' = st
               /\ UNCHANGED <<error, opened>>
          ELSE /\ Raise("PicoError")
               /\ UNCHANGED <<opened, powerState>>
  /\ UNCHANGED <<prog, THRESHOLD_V, deviceMaxADC, pollStatus, pending, interrupted, setupFailed, bulkStatus, maxADC,
                 files, printed, rapidVars, streamVars>>

\* open_scope: ChangePowerSource with the status OpenUnit returned
D_ChangePowerSource ==
  /\ prog = "docs" /\ pc = "changePower"
  /\ \E st \in Statuses :
       /\ status' = st
       /\ Call("ChangePowerSource", status, 0)
       /\ IF assert_pico_ok(st)
          THEN /\ pc' = "setChA" /\ opened' = TRUE /\ UNCHANGED error
          ELSE /\ Raise("PicoError") /\ UNCHANGED opened
  /\ UNCHANGED <<prog, THRESHOLD_V, deviceMaxADC, pollStatus, pending, interrupted, powerState, setupFailed,
                 bulkStatus, maxADC, files, printed, rapidVars, streamVars>>

\* an asserted setup call that only moves the control thread on
D_Asserted(at, name, a, b, next) ==
  /\ prog = "docs" /\ pc = at
  /\ \E st \in Statuses :
       /\ Call(name, a, b)
       /\ IF assert_pico_ok(st)
          THEN /\ pc' = next /\ UNCHANGED <<error, setupFailed>>
          ELSE /\ Raise("PicoError") /\ setupFailed' = TRUE
  /\ UNCHANGED <<prog, THRESHOLD_V, deviceMaxADC, pollStatus, status, pending, interrupted, opened, powerState, bulkStatus,
                 maxADC, files, printed, rapidVars, streamVars>>

D_SetChannelA == D_Asserted("setChA", "SetChannel", 0, RANGE_A, "setChB")

D_SetChannelB == D_Asserted("setChB", "SetChannel", 1, RANGE_B, "maxValue")

\* python int(a / b) for b > 0: the quotient with its fraction cut off
int(a, b) == IF a >= 0 THEN a \div b ELSE -((-a) \div b)

\* mutant of the conversion: the level is cut to whole range units before
\* it is scaled
thr_count_of_CutFirst(v, m) == int(v, UnitsPerVolt * max_voltage_range) * m

\* int(v * maxADC.value / max_voltage_range) for a level v
thr_count_of(v, m) == int(v * m, UnitsPerVolt * max_voltage_range)

\* thr_count = int(THRESHOLD_V * maxADC.value / max_voltage_range)
ThresholdCount(m) == thr_count_of(THRESHOLD_V, m)

\* setup_channels: MaximumValue, then the threshold conversion
D_MaximumValue ==
  /\ prog = "docs" /\ pc = "maxValue"
  /\ \E st \in Statuses :
       /\ Call("MaximumValue", 0, 0)
       /\ IF assert_pico_ok(st)
          THEN /\ maxADC' = deviceMaxADC
               /\ thr_count' = ThresholdCount(deviceMaxADC)
               /\ pc' = "setTrigger" /\ UNCHANGED <<error, setupFailed>>
          ELSE /\ Raise("PicoError") /\ setupFailed' = TRUE
               /\ UNCHANGED <<maxADC, thr_count>>
  /\ UNCHANGED <<prog, THRESHOLD_V, deviceMaxADC, pollStatus, status, pending, interrupted, opened, powerState, bulkStatus,
                 files, printed, seg_max, n_samples, bufs_a, bufs_b,
                 registered, idx, ready, polls, samples_ret, overflow,
                 captures, streamVars>>

\* thr_count is passed as the int16_t threshold argument: ctypes keeps the
\* low 16 bits of a Python int and checks no overflow
c_int16(x) == ((x + 32768) % 65536) - 32768

D_SetSimpleTrigger ==
  D_Asserted("setTrigger", "SetSimpleTrigger", c_int16(thr_count), 0,
             "memSeg")

\* setup_segments: MemorySegments; the device writes the per-segment maximum
D_MemorySegments ==
  /\ prog = "docs" /\ pc = "memSeg"
  /\ \E st \in Statuses, m \in SegMaxValues :
       /\ Call("MemorySegments", NUM_SEGMENTS, 0)
       /\ IF assert_pico_ok(st)
          THEN /\ seg_max' = m /\ pc' = "setNoCaptures"
               /\ UNCHANGED <<error, setupFailed>>
          ELSE /\ Raise("PicoError") /\ setupFailed' = TRUE
               /\ UNCHANGED seg_max
  /\ UNCHANGED <<prog, THRESHOLD_V, deviceMaxADC, pollStatus, status, pending, interrupted, opened, powerState, bulkStatus,
                 maxADC, files, printed, n_samples, bufs_a, bufs_b,
                 registered, idx, ready, polls, samples_ret, overflow,
                 captures, thr_count, streamVars>>

\* setup_segments: SetNoOfCaptures; back in capture_and_save the sample
\* count is clamped, n_samples = min(seg_max, SAMPLES_PER_SEGMENT)
D_SetNoOfCaptures ==
  /\ prog = "docs" /\ pc = "setNoCaptures"
  /\ \E st \in Statuses :
       /\ Call("SetNoOfCaptures", NUM_SEGMENTS, 0)
       /\ IF assert_pico_ok(st)
          THEN /\ n_samples' = Min(seg_max, SAMPLES_PER_SEGMENT)
               /\ printed' = printed \cup {<<"Using samples per segment",
                                             Min(seg_max, SAMPLES_PER_SEGMENT)>>}
               /\ pc' = "getTimebase" /\ UNCHANGED <<error, setupFailed>>
          ELSE /\ Raise("PicoError") /\ setupFailed' = TRUE
               /\ UNCHANGED <<n_samples, printed>>
  /\ UNCHANGED <<prog, THRESHOLD_V, deviceMaxADC, pollStatus, status, pending, interrupted, opened, powerState, bulkStatus,
                 maxADC, files, seg_max, bufs_a, bufs_b, registered, idx,
                 ready, polls, samples_ret, overflow, captures, thr_count,
                 streamVars>>

\* allocate_buffers(n_segments, n_samples): one zeroed c_int16 array per
\* segment and channel
allocate_buffers(n_segments, n) == [s \in 1 .. n_segments |-> Zeros(n)]

\* mutant: the count is computed from the longest interval, not from the
\* one the device reported
samples_needed_Assumed(timeIntervalNs) ==
  int(time_required_ns, 2 * time_required_ns) + samples_margin

\* samples_needed = int(time_required_ns / timeIntervalNs.value) + 100
samples_needed(timeIntervalNs) ==
  int(time_required_ns, timeIntervalNs) + samples_margin

\* GetTimebase2 writes the sample interval of the timebase; the script
\* warns when n_samples cannot cover time_required_ns, and goes on either
\* way with allocate_buffers(NUM_SEGMENTS, n_samples)
D_GetTimebase2 ==
  /\ prog = "docs" /\ pc = "getTimebase"
  /\ \E st \in Statuses, timeIntervalNs \in TimeIntervalsNs :
       /\ Call("GetTimebase2", n_samples, 0)
       /\ IF assert_pico_ok(st)
          THEN /\ printed' = printed \cup
                    {<<"Timebase interval ns", timeIntervalNs>>,
                     IF samples_needed(timeIntervalNs) > n_samples
                     THEN <<"WARNING: Need more samples to cover 1ms",
                            n_samples>>
                     ELSE <<"Using samples to cover 1ms", n_samples>>}
               /\ bufs_a' = allocate_buffers(NUM_SEGMENTS, n_samples)
               /\ bufs_b' = allocate_buffers(NUM_SEGMENTS, n_samples)
               /\ idx' = 0
               /\ pc' = "setBufA" /\ UNCHANGED <<error, setupFailed>>
          ELSE /\ Raise("PicoError") /\ setupFailed' = TRUE
               /\ UNCHANGED <<bufs_a, bufs_b, idx, printed>>
  /\ UNCHANGED <<prog, THRESHOLD_V, deviceMaxADC, pollStatus, status, pending, interrupted, opened, powerState, bulkStatus,
                 maxADC, files, seg_max, n_samples, registered,
                 ready, polls, samples_ret, overflow, captures, thr_count,
                 streamVars>>

\* set_data_buffers: SetDataBuffers for channel A of segment idx
D_SetDataBuffersA ==
  /\ prog = "docs" /\ pc = "setBufA"
  /\ \E st \in Statuses :
       /\ Call("SetDataBuffers", 0, idx)
       /\ IF assert_pico_ok(st)
          THEN /\ registered' = [registered EXCEPT ![<<idx, "A">>] = <<"bufs_a", idx>>]
               /\ pc' = "setBufB" /\ UNCHANGED <<error, setupFailed>>
          ELSE /\ Raise("PicoError") /\ setupFailed' = TRUE
               /\ UNCHANGED registered
  /\ UNCHANGED <<prog, THRESHOLD_V, deviceMaxADC, pollStatus, status, pending, interrupted, opened, powerState, bulkStatus,
                 maxADC, files, printed, seg_max, n_samples, bufs_a, bufs_b,
                 idx, ready, polls, samples_ret, overflow, captures,
                 thr_count, streamVars>>

\* set_data_buffers: SetDataBuffers for channel B of segment idx, then the
\* next segment
D_SetDataBuffersB ==
  /\ prog = "docs" /\ pc = "setBufB"
  /\ \E st \in Statuses :
       /\ Call("SetDataBuffers", 1, idx)
       /\ IF assert_pico_ok(st)
          THEN /\ registered' = [registered EXCEPT ![<<idx, "B">>] = <<"bufs_b", idx>>]
               /\ idx' = idx + 1
               /\ pc' = IF idx + 1 < Len(bufs_a) THEN "setBufA" ELSE "runBlock"
               /\ UNCHANGED <<error, setupFailed>>
          ELSE /\ Raise("PicoError") /\ setupFailed' = TRUE
               /\ UNCHANGED <<registered, idx>>
  /\ UNCHANGED <<prog, THRESHOLD_V, deviceMaxADC, pollStatus, status, pending, interrupted, opened, powerState, bulkStatus,
                 maxADC, files, printed, seg_max, n_samples, bufs_a, bufs_b,
                 ready, polls, samples_ret, overflow, captures, thr_count,
                 streamVars>>

\* RunBlock(0 pre-trigger, n_samples post-trigger); ready = c_int16(0)
D_RunBlock ==
  /\ prog = "docs" /\ pc = "runBlock"
  /\ \E st \in Statuses :
       /\ Call("RunBlock", 0, n_samples)
       /\ IF assert_pico_ok(st)
          THEN /\ ready' = 0 /\ polls' = 0
               /\ pc' = "wait" /\ UNCHANGED error
          ELSE /\ Raise("PicoError") /\ UNCHANGED <<ready, polls>>
  /\ UNCHANGED <<prog, THRESHOLD_V, deviceMaxADC, pollStatus, status, pending, interrupted, opened, powerState, setupFailed,
                 bulkStatus, maxADC, files, printed, seg_max, n_samples,
                 bufs_a, bufs_b, registered, idx, samples_ret, overflow,
                 captures, thr_count, streamVars>>

\* mutant of the loop test: the wait loop is left after its first pass
WaitOver_AfterOnePass(r) == TRUE

\* mutant of the loop test: the wait loop is never left
WaitOver_Never(r) == FALSE

\* the loop test of "while not ready.value"
WaitOver(r) == r # 0

\* one pass of the wait loop: IsReady (status not looked at), sleep, test;
\* a poll that fails leaves the ready flag as it was
D_IsReady ==
  /\ prog = "docs" /\ pc = "wait" /\ polls < MaxPolls
  /\ \E st \in Statuses, r \in {0, 1} :
       /\ st # PICO_OK => r = ready
       /\ CallPoll("IsReady")
       /\ pollStatus' = st
       /\ ready' = r
       /\ polls' = polls + 1
       /\ pc' = IF WaitOver(r) THEN "getBulk" ELSE "wait"
  /\ UNCHANGED <<prog, THRESHOLD_V, deviceMaxADC, status, error, pending, interrupted, opened, powerState,
                 setupFailed, bulkStatus, maxADC, files, printed, seg_max,
                 n_samples, bufs_a, bufs_b, registered, idx, samples_ret,
                 overflow, captures, thr_count, streamVars>>

\* GetValuesBulk over segments 0 .. NUM_SEGMENTS-1: the device fills the
\* registered buffers and writes back the sample count and overflow flags
D_GetValuesBulk ==
  /\ prog = "docs" /\ pc = "getBulk"
  /\ \E st \in Statuses, ov \in OverflowChoices,
        n \in {n_samples, n_samples - 1} :
       /\ Call("GetValuesBulk", 0, NUM_SEGMENTS - 1)
       /\ bulkStatus' = st
       /\ IF assert_pico_ok(st)
          THEN /\ samples_ret' = n
               /\ overflow' = ov
               /\ bufs_a' = DeviceFill(bufs_a, "bufs_a", signal, n, ov)
               /\ bufs_b' = DeviceFill(bufs_b, "bufs_b", signal, n, ov)
               /\ printed' = printed \cup {<<"Retrieved samples per segment", n>>}
               /\ pc' = "maxValue2" /\ UNCHANGED error
          ELSE /\ Raise("PicoError")
               /\ UNCHANGED <<samples_ret, overflow, bufs_a, bufs_b, printed>>
  /\ UNCHANGED <<prog, THRESHOLD_V, deviceMaxADC, pollStatus, status, pending, interrupted, opened, powerState, setupFailed,
                 maxADC, files, seg_max, n_samples, registered, idx, ready,
                 polls, captures, thr_count, streamVars>>

\* the second MaximumValue query, before conversion
D_MaximumValue2 ==
  /\ prog = "docs" /\ pc = "maxValue2"
  /\ \E st \in Statuses :
       /\ Call("MaximumValue", 0, 0)
       /\ IF assert_pico_ok(st)
          THEN /\ maxADC' = deviceMaxADC /\ idx' = 0
               /\ pc' = "save" /\ UNCHANGED error
          ELSE /\ Raise("PicoError") /\ UNCHANGED <<maxADC, idx>>
  /\ UNCHANGED <<prog, THRESHOLD_V, deviceMaxADC, pollStatus, status, pending, interrupted, opened, powerState, setupFailed,
                 bulkStatus, files, printed, seg_max, n_samples, bufs_a,
                 bufs_b, registered, ready, polls, samples_ret, overflow,
                 captures, thr_count, streamVars>>

\* mutant of the time axis of a segment: every row carries time 0
Linspace_Flat(n, i) == <<0, 1>>

\* np.linspace(0, 1_000_000, n)[i] as an exact fraction
Linspace(n, i) == IF n <= 1 THEN <<0, 1>> ELSE <<i * 1000000, n - 1>>

\* mutants of the conversion calls: channel A's column is taken from
\* channel B's buffer; a literal maximum code is used
data_a_FromB == adc2mV(bufs_b[idx + 1], RANGE_A, maxADC)

data_a_LiteralMax == adc2mV(bufs_a[idx + 1], RANGE_A, 32767)

\* data_a = adc2mV(bufs_a[idx], RANGE_A, maxADC)
data_a == adc2mV(bufs_a[idx + 1], RANGE_A, maxADC)

\* data_b = adc2mV(bufs_b[idx], RANGE_B, maxADC)
data_b == adc2mV(bufs_b[idx + 1], RANGE_B, maxADC)

\* one pass of the save loop: convert both buffers of segment idx and write
\* n_samples rows [time_ns, A_mV, B_mV] to seg{idx+1}_<timestamp>.csv
D_SaveSegment ==
  /\ prog = "docs" /\ pc = "save"
  /\ LET rows == [i \in 1 .. n_samples |->
                    <<Linspace(n_samples, i - 1), data_a[i], data_b[i]>>]
     IN /\ files' = Append(files, [name |-> idx + 1,
                                   header |-> <<"Time_ns", "A_mV", "B_mV">>,
                                   rows |-> rows])
        /\ printed' = printed \cup {<<"Saved segment", idx + 1>>}
  /\ idx' = idx + 1
  /\ pc' = IF idx + 1 < NUM_SEGMENTS THEN "save" ELSE "stop"
  /\ UNCHANGED <<prog, THRESHOLD_V, deviceMaxADC, pollStatus, status, error, pending, interrupted, opened, calls, powerState,
                 setupFailed, bulkStatus, maxADC, seg_max, n_samples, bufs_a,
                 bufs_b, registered, ready, polls, samples_ret, overflow,
                 captures, thr_count, streamVars>>

\* Stop, status not looked at
D_Stop ==
  /\ prog = "docs" /\ pc = "stop"
  /\ Call("Stop", 0, 0)
  /\ pc' = "close"
  /\ printed' = printed \cup {<<"Scope stopped", 0>>}
  /\ UNCHANGED <<prog, THRESHOLD_V, deviceMaxADC, pollStatus, status, error, pending, interrupted, opened, powerState,
                 setupFailed, bulkStatus, maxADC, files, rapidVars, streamVars>>

\* CloseUnit, status not looked at; capture_and_save returns
D_CloseUnit ==
  /\ prog = "docs" /\ pc = "close"
  /\ Call("CloseUnit", 0, 0)
  /\ pc' = "done"
  /\ printed' = printed \cup {<<"Scope connection closed", 0>>}
  /\ UNCHANGED <<prog, THRESHOLD_V, deviceMaxADC, pollStatus, status, error, pending, interrupted, opened, powerState,
                 setupFailed, bulkStatus, maxADC, files, rapidVars, streamVars>>

Terminal == pc \in {"done", "raised"}

\* KeyboardInterrupt in a script without any handler: it reaches the caller
D_Interrupt ==
  /\ prog = "docs" /\ ~Terminal /\ ~interrupted
  /\ interrupted' = TRUE
  /\ Raise("KeyboardInterrupt")
  /\ UNCHANGED <<prog, THRESHOLD_V, deviceMaxADC, pollStatus, status, pending, opened, calls, powerState, setupFailed,
                 bulkStatus, maxADC, files, printed, rapidVars, streamVars>>

DocsNext ==
  \/ D_OpenUnit \/ D_ChangePowerSource \/ D_SetChannelA \/ D_SetChannelB
  \/ D_MaximumValue \/ D_SetSimpleTrigger \/ D_MemorySegments
  \/ D_SetNoOfCaptures \/ D_GetTimebase2 \/ D_SetDataBuffersA
  \/ D_SetDataBuffersB \/ D_RunBlock \/ D_IsReady \/ D_GetValuesBulk
  \/ D_MaximumValue2 \/ D_SaveSegment \/ D_Stop \/ D_CloseUnit \/ D_Interrupt

\* ------------------------------------------------- ps3000atest_4.5.py
\* open_scope: OpenUnit
T_OpenUnit ==
  /\ prog = "t45" /\ pc = "open"
  /\ \E st \in OpenStatuses :
       /\ status' = st
       /\ Call("OpenUnit", 0, 0)
       /\ IF assert_pico_ok(st)
          THEN /\ pc' = "setChA" /\ opened' = TRUE
               /\ UNCHANGED <<error, powerState>>
          ELSE IF st = PICO_POWER_SUPPLY_NOT_CONNECTED
                  \/ st = PICO_USB3_0_DEVICE_NON_USB3_0_PORT
          THEN /\ pc' = "changePower" /\ powerState' = st
               /\ UNCHANGED <<error, opened>>
          ELSE /\ Raise("Unhandled PicoScope powerstate error")
               /\ UNCHANGED <<opened, powerState>>
  /\ UNCHANGED <<prog, THRESHOLD_V, deviceMaxADC, pollStatus, pending, interrupted, setupFailed, bulkStatus, maxADC,
                 files, printed, rapidVars, streamVars>>

\* open_scope: ChangePowerSource(chandle, powerstate), asserted
T_ChangePowerSource ==
  /\ prog = "t45" /\ pc = "changePower"
  /\ \E st \in Statuses :
       /\ status' = st
       /\ Call("ChangePowerSource", powerState, 0)
       /\ IF assert_pico_ok(st)
          THEN /\ pc' = "setChA" /\ opened' = TRUE /\ UNCHANGED error
          ELSE /\ Raise("PicoError") /\ UNCHANGED opened
  /\ UNCHANGED <<prog, THRESHOLD_V, deviceMaxADC, pollStatus, pending, interrupted, powerState, setupFailed,
                 bulkStatus, maxADC, files, printed, rapidVars, streamVars>>

\* a setup call whose status is dropped
T_Unchecked(at, name, a, b, next) ==
  /\ prog = "t45" /\ pc = at
  /\ \E st \in Statuses :
       /\ Call(name, a, b)
       /\ setupFailed' = (setupFailed \/ st # PICO_OK)
       /\ pc' = next
  /\ UNCHANGED <<prog, THRESHOLD_V, deviceMaxADC, pollStatus, status, error, pending, interrupted, opened, powerState,
                 bulkStatus, maxADC, files, printed>>

T_SetChannelA ==
  /\ T_Unchecked("setChA", "SetChannel", 0, RANGE_A, "setChB")
  /\ UNCHANGED <<rapidVars, streamVars>>

T_SetChannelB ==
  /\ T_Unchecked("setChB", "SetChannel", 1, RANGE_B, "setTrigger")
  /\ UNCHANGED <<rapidVars, streamVars>>

\* setup_trigger: threshold = int(4.5 / 10.0 * 32767)
T_SetSimpleTrigger ==
  /\ T_Unchecked("setTrigger", "SetSimpleTrigger", T45_THRESHOLD, 0, "memSeg")
  /\ thr_count' = T45_THRESHOLD
  /\ UNCHANGED <<seg_max, n_samples, bufs_a, bufs_b, registered, idx, ready,
                 polls, samples_ret, overflow, captures, streamVars>>

\* setup_segments: MemorySegments; nMaxSamples is a local that is dropped.
\* main then enters the try block and capture_segments starts with empty
\* buffer lists and a fresh overflow array
T_MemorySegments ==
  /\ T_Unchecked("memSeg", "MemorySegments", NUM_SEGMENTS, 0, "setBufA")
  /\ \E m \in SegMaxValues : seg_max' = m
  /\ n_samples' = SAMPLES_PER_SEGMENT
  /\ bufs_a' = << >> /\ bufs_b' = << >>
  /\ idx' = 0
  /\ overflow' = Zeros(NUM_SEGMENTS)
  /\ UNCHANGED <<registered, ready, polls, samples_ret, captures, thr_count,
                 streamVars>>

\* capture_segments, loop body for segment idx: both buffers are created
\* with SAMPLES_PER_SEGMENT entries, then SetDataBuffer for channel A
T_SetDataBufferA ==
  /\ T_Unchecked("setBufA", "SetDataBuffer", 0, idx, "setBufB")
  /\ bufs_a' = Append(bufs_a, Zeros(SAMPLES_PER_SEGMENT))
  /\ bufs_b' = Append(bufs_b, Zeros(SAMPLES_PER_SEGMENT))
  /\ registered' = [registered EXCEPT ![<<idx, "A">>] = <<"bufs_a", idx>>]
  /\ UNCHANGED <<seg_max, n_samples, idx, ready, polls, samples_ret, overflow,
                 captures, thr_count, streamVars>>

\* capture_segments: SetDataBuffer for channel B, then the next segment
T_SetDataBufferB ==
  /\ T_Unchecked("setBufB", "SetDataBuffer", 1, idx,
                 IF idx + 1 < NUM_SEGMENTS THEN "setBufA" ELSE "runBlock")
  /\ registered' = [registered EXCEPT ![<<idx, "B">>] = <<"bufs_b", idx>>]
  /\ idx' = idx + 1
  /\ UNCHANGED <<seg_max, n_samples, bufs_a, bufs_b, ready, polls,
                 samples_ret, overflow, captures, thr_count, streamVars>>

\* RunBlock(0, SAMPLES_PER_SEGMENT), status dropped; ready = c_int16(0)
T_RunBlock ==
  /\ prog = "t45" /\ pc = "runBlock"
  /\ Call("RunBlock", 0, SAMPLES_PER_SEGMENT)
  /\ ready' = 0 /\ polls' = 0
  /\ pc' = "wait"
  /\ UNCHANGED <<prog, THRESHOLD_V, deviceMaxADC, pollStatus, status, error, pending, interrupted, opened, powerState,
                 setupFailed, bulkStatus, maxADC, files, printed, seg_max,
                 n_samples, bufs_a, bufs_b, registered, idx, samples_ret,
                 overflow, captures, thr_count, streamVars>>

\* one pass of the wait loop
T_IsReady ==
  /\ prog = "t45" /\ pc = "wait" /\ polls < MaxPolls
  /\ \E st \in Statuses, r \in {0, 1} :
       /\ st # PICO_OK => r = ready
       /\ CallPoll("IsReady")
       /\ pollStatus' = st
       /\ ready' = r
       /\ polls' = polls + 1
       /\ pc' = IF WaitOver(r) THEN "getBulk" ELSE "wait"
  /\ UNCHANGED <<prog, THRESHOLD_V, deviceMaxADC, status, error, pending, interrupted, opened, powerState,
                 setupFailed, bulkStatus, maxADC, files, printed, seg_max,
                 n_samples, bufs_a, bufs_b, registered, idx, samples_ret,
                 overflow, captures, thr_count, streamVars>>

\* GetValuesBulk, status dropped; capture_segments returns the buffer lists
T_GetValuesBulk ==
  /\ prog = "t45" /\ pc = "getBulk"
  /\ \E st \in Statuses, ov \in OverflowChoices,
        n \in {Min(SAMPLES_PER_SEGMENT, seg_max),
               Min(SAMPLES_PER_SEGMENT, seg_max) - 1} :
       /\ Call("GetValuesBulk", 0, NUM_SEGMENTS - 1)
       /\ bulkStatus' = st
       /\ IF st = PICO_OK
          THEN /\ samples_ret' = n
               /\ overflow' = ov
               /\ bufs_a' = DeviceFill(bufs_a, "bufs_a", signal, n, ov)
               /\ bufs_b' = DeviceFill(bufs_b, "bufs_b", signal, n, ov)
          ELSE /\ samples_ret' = SAMPLES_PER_SEGMENT
               /\ UNCHANGED <<overflow, bufs_a, bufs_b>>
  /\ pc' = "maxValue"
  /\ UNCHANGED <<prog, THRESHOLD_V, deviceMaxADC, pollStatus, status, error, pending, interrupted, opened, powerState,
                 setupFailed, maxADC, files, printed, seg_max, n_samples,
                 registered, idx, ready, polls, captures, thr_count,
                 streamVars>>

\* save_to_csv: maxADC = c_int16(); MaximumValue, status dropped
T_MaximumValue ==
  /\ prog = "t45" /\ pc = "maxValue"
  /\ \E st \in Statuses :
       /\ Call("MaximumValue", 0, 0)
       /\ maxADC' = IF st = PICO_OK THEN deviceMaxADC ELSE 0
  /\ idx' = 0
  /\ pc' = "save"
  /\ UNCHANGED <<prog, THRESHOLD_V, deviceMaxADC, pollStatus, status, error, pending, interrupted, opened, powerState,
                 setupFailed, bulkStatus, files, printed, seg_max, n_samples,
                 bufs_a, bufs_b, registered, ready, polls, samples_ret,
                 overflow, captures, thr_count, streamVars>>

\* mutant of the finally block: it starts at CloseUnit, Stop left out
FinallyEntry_AtClose == "finClose"

\* the first statement of the finally block of main: ps3000aStop
FinallyEntry == "finStop"

\* save_to_csv, loop body for segment idx: SAMPLES_PER_SEGMENT rows
\* [sample_idx, A, B]; a zero maxADC makes adc2mV divide by zero, and the
\* exception unwinds through the finally block of main.  After the last
\* segment main sleeps and starts the next capture
T_SaveSegment ==
  /\ prog = "t45" /\ pc = "save"
  /\ IF maxADC = 0
     THEN /\ pending' = "ZeroDivisionError"
          /\ pc' = FinallyEntry
          /\ UNCHANGED <<files, printed, idx, captures, bufs_a, bufs_b>>
     ELSE /\ LET rows == [i \in 1 .. SAMPLES_PER_SEGMENT |->
                            <<i - 1, data_a[i], data_b[i]>>]
             IN files' = Append(files,
                                [name |-> idx + 1,
                                 header |-> <<"Sample", "Channel A (mV)",
                                              "Channel B (mV)">>,
                                 rows |-> rows])
          /\ printed' = printed \cup {<<"Segment saved", idx + 1>>}
          /\ IF idx + 1 < NUM_SEGMENTS
             THEN /\ idx' = idx + 1 /\ pc' = "save"
                  /\ UNCHANGED <<captures, bufs_a, bufs_b>>
             ELSE /\ captures' = captures + 1
                  /\ idx' = 0
                  /\ bufs_a' = << >> /\ bufs_b' = << >>
                  /\ pc' = IF captures + 1 < MaxCaptures
                           THEN "setBufA" ELSE "capped"
          /\ UNCHANGED pending
  /\ UNCHANGED <<prog, THRESHOLD_V, deviceMaxADC, pollStatus, status, error, interrupted, opened, calls, powerState,
                 setupFailed, bulkStatus, maxADC, seg_max, n_samples,
                 registered, ready, polls, samples_ret, overflow, thr_count,
                 streamVars>>

\* the statements of main that the try block covers
InTry == pc \in {"setBufA", "setBufB", "runBlock", "wait", "getBulk",
                 "maxValue", "save", "capped"}

\* KeyboardInterrupt: inside the try block the except clause takes it and
\* the finally block runs; anywhere else it reaches the caller
T_Interrupt ==
  /\ prog = "t45" /\ ~Terminal /\ ~interrupted
  /\ interrupted' = TRUE
  /\ IF InTry
     THEN /\ pc' = FinallyEntry
          /\ printed' = printed \cup {<<"Capture stopped by user", 0>>}
          /\ UNCHANGED error
     ELSE /\ Raise("KeyboardInterrupt")
          /\ UNCHANGED printed
  /\ UNCHANGED <<prog, THRESHOLD_V, deviceMaxADC, pollStatus, status, pending, opened, calls, powerState, setupFailed,
                 bulkStatus, maxADC, files, rapidVars, streamVars>>

\* finally: Stop
T_Stop ==
  /\ prog = "t45" /\ pc = "finStop"
  /\ Call("Stop", 0, 0)
  /\ pc' = "finClose"
  /\ UNCHANGED <<prog, THRESHOLD_V, deviceMaxADC, pollStatus, status, error, pending, interrupted, opened, powerState,
                 setupFailed, bulkStatus, maxADC, files, printed, rapidVars,
                 streamVars>>

\* finally: CloseUnit, then the exception in flight, if any, goes on
T_CloseUnit ==
  /\ prog = "t45" /\ pc = "finClose"
  /\ Call("CloseUnit", 0, 0)
  /\ printed' = printed \cup {<<"PicoScope closed successfully", 0>>}
  /\ IF pending = "none"
     THEN pc' = "done" /\ UNCHANGED error
     ELSE Raise(pending)
  /\ UNCHANGED <<prog, THRESHOLD_V, deviceMaxADC, pollStatus, status, pending, interrupted, opened, powerState, setupFailed,
                 bulkStatus, maxADC, files, rapidVars, streamVars>>

T45Next ==
  \/ T_OpenUnit \/ T_ChangePowerSource \/ T_SetChannelA \/ T_SetChannelB
  \/ T_SetSimpleTrigger \/ T_MemorySegments \/ T_SetDataBufferA
  \/ T_SetDataBufferB \/ T_RunBlock \/ T_IsReady \/ T_GetValuesBulk
  \/ T_MaximumValue \/ T_SaveSegment \/ T_Interrupt \/ T_Stop \/ T_CloseUnit

\* ------------------------------------------------- ps3000atest_sonn.py
\* OpenUnit at module level
S_OpenUnit ==
  /\ prog = "sonn" /\ pc = "open"
  /\ \E st \in OpenStatuses :
       /\ status' = st
       /\ Call("OpenUnit", 0, 0)
       /\ IF assert_pico_ok(st)
          THEN /\ pc' = "setChA" /\ opened' = TRUE
               /\ UNCHANGED <<error, powerState>>
          ELSE IF st = PICO_USB3_0_DEVICE_NON_USB3_0_PORT
                  \/ st = PICO_POWER_SUPPLY_NOT_CONNECTED
          THEN /\ pc' = "changePower" /\ powerState' = st
               /\ UNCHANGED <<error, opened>>
          ELSE /\ Raise("PicoError")
               /\ UNCHANGED <<opened, powerState>>
  /\ UNCHANGED <<prog, THRESHOLD_V, deviceMaxADC, pollStatus, pending, interrupted, setupFailed, bulkStatus,
                 maxADC, files, printed, rapidVars, streamVars>>

\* ChangePowerSource(chandle, powerStatus), asserted
S_ChangePowerSource ==
  /\ prog = "sonn" /\ pc = "changePower"
  /\ \E st \in Statuses :
       /\ status' = st
       /\ Call("ChangePowerSource", powerState, 0)
       /\ IF assert_pico_ok(st)
          THEN /\ pc' = "setChA" /\ opened' = TRUE /\ UNCHANGED error
          ELSE /\ Raise("PicoError") /\ UNCHANGED opened
  /\ UNCHANGED <<prog, THRESHOLD_V, deviceMaxADC, pollStatus, pending, interrupted, powerState, setupFailed,
                 bulkStatus, maxADC, files, printed, rapidVars, streamVars>>

\* an asserted call that only moves the control thread on
S_Asserted(at, name, a, b, next) ==
  /\ prog = "sonn" /\ pc = at
  /\ \E st \in Statuses :
       /\ Call(name, a, b)
       /\ IF assert_pico_ok(st)
          THEN /\ pc' = next /\ UNCHANGED error
          ELSE /\ Raise("PicoError")
  /\ UNCHANGED <<prog, THRESHOLD_V, deviceMaxADC, pollStatus, status, pending, interrupted, opened, powerState,
                 bulkStatus, maxADC, files, rapidVars, streamVars>>

S_SetChannelA ==
  /\ S_Asserted("setChA", "SetChannel", 0, channel_range, "setChB")
  /\ setupFailed' = (pc' = "raised")
  /\ UNCHANGED printed

S_SetChannelB ==
  /\ S_Asserted("setChB", "SetChannel", 1, channel_range, "setBufA")
  /\ setupFailed' = (pc' = "raised")
  /\ UNCHANGED printed

\* SetDataBuffers for the two ring buffers, memory segment 0
S_SetDataBuffersA ==
  /\ S_Asserted("setBufA", "SetDataBuffers", 0, 0, "setBufB")
  /\ setupFailed' = (pc' = "raised")
  /\ UNCHANGED printed

S_SetDataBuffersB ==
  /\ S_Asserted("setBufB", "SetDataBuffers", 1, 0, "maxValue")
  /\ setupFailed' = (pc' = "raised")
  /\ UNCHANGED printed

\* MaximumValue, asserted
S_MaximumValue ==
  /\ prog = "sonn" /\ pc = "maxValue"
  /\ \E st \in Statuses :
       /\ Call("MaximumValue", 0, 0)
       /\ IF assert_pico_ok(st)
          THEN /\ maxADC' = deviceMaxADC /\ pc' = "runStreaming"
               /\ UNCHANGED <<error, setupFailed>>
          ELSE /\ Raise("PicoError") /\ setupFailed' = TRUE
               /\ UNCHANGED maxADC
  /\ UNCHANGED <<prog, THRESHOLD_V, deviceMaxADC, pollStatus, status, pending, interrupted, opened, powerState,
                 bulkStatus, files, printed, rapidVars, streamVars>>

\* mutants of the loop test: no iteration ceiling; auto-stop not looked at
LoopTest_NoCeiling(ns, stop, it) == ns < totalSamples /\ ~stop

LoopTest_IgnoresAutoStop(ns, stop, it) ==
  ns < totalSamples /\ it < max_iterations

\* the test of the data collection loop
LoopTest(ns, stop, it) ==
  ns < totalSamples /\ ~stop /\ it < max_iterations

\* RunStreaming: the device writes the interval it will use back into
\* sampleInterval; actualSampleIntervalNs = sampleInterval.value * 1000
S_RunStreaming ==
  /\ prog = "sonn" /\ pc = "runStreaming"
  /\ \E st \in Statuses, iv \in SampleIntervals :
       /\ Call("RunStreaming", requestedSampleInterval, totalSamples)
       /\ IF assert_pico_ok(st)
          THEN /\ actualSampleIntervalNs' = iv * 1000
               /\ pc' = IF LoopTest(nextSample, autoStopOuter, iteration_count)
                        THEN "poll" ELSE "stop"
               /\ UNCHANGED error
          ELSE /\ Raise("PicoError")
               /\ UNCHANGED actualSampleIntervalNs
  /\ UNCHANGED <<prog, THRESHOLD_V, deviceMaxADC, pollStatus, status, pending, interrupted, opened, powerState,
                 setupFailed, bulkStatus, maxADC, files, printed, rapidVars,
                 bufferAMax, bufferBMax, nextSample, autoStopOuter,
                 wasCalledBack, buffers_captured, file_counter,
                 iteration_count, delivered>>

\* the driver writing the next noOfSamples codes of the sampled stream at
\* startIndex of a ring buffer; first is the stream position of the window
DeviceWrite(buf, startIndex, noOfSamples, base, first) ==
  [i \in 1 .. Len(buf) |->
     IF startIndex < i /\ i <= startIndex + noOfSamples
     THEN base + first + (i - 1 - startIndex) ELSE buf[i]]

\* mutant of the copy: the window is taken from the front of the ring
CallbackCopy_FromFront(buf, startIndex, noOfSamples) ==
  Slice(buf, 0, noOfSamples)

\* streaming_callback: buffer[startIndex:startIndex + noOfSamples].copy()
CallbackCopy(buf, startIndex, noOfSamples) ==
  Slice(buf, startIndex, startIndex + noOfSamples)

\* mutant of the time axis: built from the requested interval
time_ns_Requested(n, sample_interval_ns) ==
  [i \in 1 .. n |-> (i - 1) * requestedSampleInterval * 1000]

\* time_ns = np.arange(len(buffer_a)) * sample_interval_ns
time_ns(n, sample_interval_ns) ==
  [i \in 1 .. n |-> (i - 1) * sample_interval_ns]

\* mutant of the callback's test: a window is only saved when it fills the
\* ring buffer
CallbackSaves_WhenFull(noOfSamples) == noOfSamples >= sizeOfOneBuffer

\* mutant of the callback's test: every callback saves, an empty one too
CallbackSaves_Always(noOfSamples) == TRUE

\* streaming_callback: "if noOfSamples > 0"
CallbackSaves(noOfSamples) == noOfSamples > 0

\* save_buffer_to_csv: the file capture_<ts>_buffer_<file_counter>.csv
CsvOf(buffer_a, buffer_b, sample_interval_ns, counter, buffer_num) ==
  LET a == adc2mV(buffer_a, channel_range, maxADC)
      b == adc2mV(buffer_b, channel_range, maxADC)
  IN [name |-> counter,
      num |-> buffer_num,
      header |-> <<"Time_ns", "Channel_A_mV", "Channel_B_mV">>,
      rows |-> [i \in 1 .. Len(buffer_a) |->
                  <<time_ns(Len(buffer_a), sample_interval_ns)[i],
                    a[i], b[i]>>]]

\* the deliveries the driver can make in one poll: (startIndex, noOfSamples)
Windows ==
  {w \in (0 .. sizeOfOneBuffer - 1) \X (0 .. sizeOfOneBuffer) :
     /\ w[1] + w[2] <= sizeOfOneBuffer
     /\ w[2] = 0 => w[1] = 0}

\* one pass of the data collection loop: GetStreamingLatestValues (status
\* stored, not looked at).  Either the driver has nothing and the callback
\* is not run, or it writes a window into the ring buffers and runs
\* streaming_callback before the call returns
S_GetStreamingLatestValues ==
  /\ prog = "sonn" /\ pc = "poll"
  /\ Call("GetStreamingLatestValues", 0, 0)
  /\ iteration_count' = iteration_count + 1
  /\ \/ /\ \E st \in Statuses : pollStatus' = st
        /\ wasCalledBack' = FALSE
        /\ pc' = IF LoopTest(nextSample, autoStopOuter, iteration_count + 1)
                 THEN "poll" ELSE "stop"
        /\ UNCHANGED <<bufferAMax, bufferBMax, nextSample, autoStopOuter,
                       buffers_captured, file_counter, delivered, files,
                       printed>>
     \/ \E w \in Windows, autoStop \in BOOLEAN :
          LET startIndex == w[1]
              noOfSamples == w[2]
              ringA == DeviceWrite(bufferAMax, startIndex, noOfSamples,
                                   signal[1], nextSample)
              ringB == DeviceWrite(bufferBMax, startIndex, noOfSamples,
                                   signal[2], nextSample)
              buffer_a_copy == CallbackCopy(ringA, startIndex, noOfSamples)
              buffer_b_copy == CallbackCopy(ringB, startIndex, noOfSamples)
          IN /\ pollStatus' = PICO_OK
             /\ bufferAMax' = ringA
             /\ bufferBMax' = ringB
             /\ delivered' = Append(delivered,
                                    [startIndex |-> startIndex,
                                     noOfSamples |-> noOfSamples,
                                     a |-> SubSeq(ringA, startIndex + 1,
                                                  startIndex + noOfSamples),
                                     b |-> SubSeq(ringB, startIndex + 1,
                                                  startIndex + noOfSamples)])
             /\ wasCalledBack' = TRUE
             /\ printed' = printed \cup {<<"Callback triggered", noOfSamples>>}
             /\ IF CallbackSaves(noOfSamples)
                THEN /\ files' = Append(files,
                                        CsvOf(buffer_a_copy, buffer_b_copy,
                                              actualSampleIntervalNs,
                                              file_counter, buffers_captured))
                     /\ file_counter' = file_counter + 1
                     /\ buffers_captured' = buffers_captured + 1
                ELSE UNCHANGED <<files, file_counter, buffers_captured>>
             /\ nextSample' = nextSample + noOfSamples
             /\ autoStopOuter' = (autoStopOuter \/ autoStop)
             /\ pc' = IF LoopTest(nextSample + noOfSamples,
                                  autoStopOuter \/ autoStop,
                                  iteration_count + 1)
                      THEN "poll" ELSE "stop"
  /\ UNCHANGED <<prog, THRESHOLD_V, deviceMaxADC, status, error, pending, interrupted, opened,
                 powerState, setupFailed, bulkStatus, maxADC, rapidVars,
                 actualSampleIntervalNs>>

\* Stop, asserted
S_Stop ==
  /\ S_Asserted("stop", "Stop", 0, 0, "close")
  /\ printed' = printed \cup {<<"Data collection complete", buffers_captured>>}
  /\ UNCHANGED setupFailed

\* CloseUnit, asserted; the script ends
S_CloseUnit ==
  /\ prog = "sonn" /\ pc = "close"
  /\ \E st \in Statuses :
       /\ Call("CloseUnit", 0, 0)
       /\ IF assert_pico_ok(st)
          THEN /\ pc' = "done" /\ UNCHANGED error
               /\ printed' = printed \cup {<<"Device closed successfully", 0>>}
          ELSE /\ Raise("PicoError") /\ UNCHANGED printed
  /\ UNCHANGED <<prog, THRESHOLD_V, deviceMaxADC, pollStatus, status, pending, interrupted, opened, powerState,
                 setupFailed, bulkStatus, maxADC, files, rapidVars, streamVars>>

\* KeyboardInterrupt in a script without any handler
S_Interrupt ==
  /\ prog = "sonn" /\ ~Terminal /\ ~interrupted
  /\ interrupted' = TRUE
  /\ Raise("KeyboardInterrupt")
  /\ UNCHANGED <<prog, THRESHOLD_V, deviceMaxADC, pollStatus, status, pending, opened, calls, powerState,
                 setupFailed, bulkStatus, maxADC, files, printed, rapidVars,
                 streamVars>>

SonnNext ==
  \/ S_OpenUnit \/ S_ChangePowerSource \/ S_SetChannelA \/ S_SetChannelB
  \/ S_SetDataBuffersA \/ S_SetDataBuffersB \/ S_MaximumValue
  \/ S_RunStreaming \/ S_GetStreamingLatestValues \/ S_Stop \/ S_CloseUnit
  \/ S_Interrupt

Next == DocsNext \/ T45Next \/ SonnNext

Spec == Init /\ [][Next]_vars

\* the streaming script alone; its main thread keeps running, so a poll
\* that is due is eventually made
StreamInit == Init /\ prog = "sonn"

StreamSpec ==
  StreamInit /\ [][SonnNext]_vars /\ WF_vars(S_GetStreamingLatestValues)

\* the single-shot rapid-block script alone; capture_and_save runs its
\* statements one after the other, so a statement that can be executed
\* eventually is, while an interrupt may or may not arrive
BlockInit == Init /\ prog = "docs"

DocsSteps ==
  \/ D_OpenUnit \/ D_ChangePowerSource \/ D_SetChannelA \/ D_SetChannelB
  \/ D_MaximumValue \/ D_SetSimpleTrigger \/ D_MemorySegments
  \/ D_SetNoOfCaptures \/ D_GetTimebase2 \/ D_SetDataBuffersA
  \/ D_SetDataBuffersB \/ D_RunBlock \/ D_IsReady \/ D_GetValuesBulk
  \/ D_MaximumValue2 \/ D_SaveSegment \/ D_Stop \/ D_CloseUnit

BlockSpec == BlockInit /\ [][DocsNext]_vars /\ WF_vars(DocsSteps)

\* ================================================================ claims
RapidBlock == prog \in {"docs", "t45"}

CountCalls(name) == Cardinality({i \in 1 .. Len(calls) : calls[i][1] = name})

HasSamples(d) == d.noOfSamples > 0

\* the callback deliveries that carried at least one sample, in order
Windowed == SelectSeq(delivered, HasSamples)

\* C1: in streaming, at every moment the k-th file written holds, for both
\* channels, exactly the codes the device delivered in the k-th non-empty
\* window [startIndex, startIndex+noOfSamples), converted; the file exists
\* as soon as the poll that delivered the window is over, so nothing the
\* device writes into the ring buffers in a later poll changes it.
C1_CopyBeforeNextPoll ==
  prog = "sonn" =>
    /\ Len(files) = Len(Windowed)
    /\ \A k \in 1 .. Len(files) :
         /\ Len(files[k].rows) = Windowed[k].noOfSamples
         /\ \A i \in 1 .. Len(files[k].rows) :
              /\ files[k].rows[i][2] =
                   <<Windowed[k].a[i] * channelInputRanges[channel_range + 1],
                     maxADC>>
              /\ files[k].rows[i][3] =
                   <<Windowed[k].b[i] * channelInputRanges[channel_range + 1],
                     maxADC>>

\* two non-empty deliveries whose ring ranges overlap, the second having
\* overwritten what the first delivered
C1_Witness ==
  /\ prog = "sonn"
  /\ Len(Windowed) >= 2
  /\ Len(files) >= 2
  /\ LET d1 == Windowed[1]
         d2 == Windowed[2]
     IN /\ d1.startIndex < d2.startIndex + d2.noOfSamples
        /\ d2.startIndex < d1.startIndex + d1.noOfSamples
        /\ SubSeq(bufferAMax, d1.startIndex + 1,
                  d1.startIndex + d1.noOfSamples) # d1.a

\* C2: in rapid block mode every step that converts a segment buffer and
\* writes its file is taken with the ready flag set by a readiness poll
\* issued after the block run was started (the flag is cleared at every
\* RunBlock), whatever the device answers and however late.
C2_ReadyBeforeRead ==
  [][(RapidBlock /\ files' # files) => (ready # 0 /\ polls > 0)]_vars

\* a segment was converted after the device reported ready on a later poll
C2_Witness ==
  /\ RapidBlock
  /\ Len(files) > 0
  /\ polls >= 2
  /\ ready # 0

\* C3 as claimed: once all buffers of a capture are allocated and
\* registered there are NUM_SEGMENTS x 2 of them, each of capacity
\* min(SAMPLES_PER_SEGMENT, device-reported maximum).
C3_BufferCountAndCapacity ==
  (RapidBlock /\ pc = "runBlock") =>
    /\ Len(bufs_a) + Len(bufs_b) = NUM_SEGMENTS * 2
    /\ \A k \in 1 .. Len(bufs_a) :
         Len(bufs_a[k]) = Min(SAMPLES_PER_SEGMENT, seg_max)
    /\ \A k \in 1 .. Len(bufs_b) :
         Len(bufs_b[k]) = Min(SAMPLES_PER_SEGMENT, seg_max)

\* C4: when OpenUnit returns 282 or 286 the next device call is
\* ChangePowerSource with exactly that code, and when that call returns
\* PICO_OK the session stands at the first channel configuration call with
\* no error raised.
C4_PowerStateRecovered ==
  /\ (Len(calls) = 1 /\ status \in PowerCodes /\ ~interrupted) =>
       (pc = "changePower" /\ powerState = status /\ error = "none")
  /\ (Len(calls) >= 2 /\ calls[2][1] = "ChangePowerSource") =>
       (calls[1][1] = "OpenUnit" /\ calls[2][2] = powerState
        /\ powerState \in PowerCodes)
  /\ (Len(calls) = 2 /\ calls[2][1] = "ChangePowerSource"
      /\ status = PICO_OK /\ ~interrupted) =>
       (pc = "setChA" /\ error = "none" /\ opened)

\* the device was opened through the 286 path and channel A is configured
C4_Witness ==
  /\ powerState = PICO_USB3_0_DEVICE_NON_USB3_0_PORT
  /\ opened
  /\ error = "none"
  /\ Len(calls) >= 3
  /\ calls[2] = <<"ChangePowerSource", PICO_USB3_0_DEVICE_NON_USB3_0_PORT, 0>>
  /\ calls[3][1] = "SetChannel"

\* the open block has failed: OpenUnit returned a status that is neither
\* success nor a power-state code, or ChangePowerSource returned non-zero
OpenFatal ==
  \/ Len(calls) = 1 /\ status \notin ({PICO_OK} \cup PowerCodes)
  \/ Len(calls) >= 2 /\ calls[2][1] = "ChangePowerSource" /\ status # PICO_OK

\* C5: when the open block fails an error has reached the caller and the
\* only device calls ever issued are OpenUnit and ChangePowerSource.
C5_OpenFatalStopsEverything ==
  OpenFatal =>
    /\ pc = "raised"
    /\ error \in {"PicoError", "Unhandled PicoScope powerstate error"}
    /\ ~opened
    /\ \A i \in 1 .. Len(calls) :
         calls[i][1] \in {"OpenUnit", "ChangePowerSource"}

\* the power-source change itself was refused
C5_Witness ==
  /\ Len(calls) = 2
  /\ calls[2][1] = "ChangePowerSource"
  /\ status # PICO_OK
  /\ pc = "raised"

\* C6 as claimed: whenever the program has ended after a successful open,
\* CloseUnit has been called exactly once.
C6_CloseExactlyOnce ==
  (opened /\ Terminal) => CountCalls("CloseUnit") = 1

\* C7 as claimed: once a setup call has returned a non-zero status, RunBlock
\* is never issued.
C7_SetupFailureNeverArms ==
  setupFailed => CountCalls("RunBlock") = 0

\* a capture was started and a later device call raised
RuntimeFailure ==
  /\ pc = "raised"
  /\ error = "PicoError"
  /\ \E i \in 1 .. Len(calls) :
       calls[i][1] \in {"RunBlock", "RunStreaming"} /\ i < Len(calls)

\* C8 as claimed: when a device call fails after the capture was started,
\* Stop and then CloseUnit have both been called by the time the error
\* reaches the caller.
C8_RuntimeErrorTeardown ==
  RuntimeFailure =>
    \E j, k \in 1 .. Len(calls) :
      j < k /\ calls[j][1] = "Stop" /\ calls[k][1] = "CloseUnit"

\* C9 as claimed: once GetValuesBulk has returned a non-zero status the
\* session is aborted and no file is written for that capture.
C9_BulkFailureEmitsNothing ==
  /\ [](bulkStatus # PICO_OK => pc = "raised")
  /\ [][bulkStatus # PICO_OK => files' = files]_vars

\* the overflow of segment s (numbered from 1) has been reported on the
\* console or recorded in the file of that segment
Surfaced(s) ==
  \/ \E m \in printed : m[1] = "Overflow" /\ m[2] = s
  \/ \E k \in 1 .. Len(files) :
       /\ files[k].name = s
       /\ \E j \in 1 .. Len(files[k].header) : files[k].header[j] = "Overflow"

\* C10 as claimed: when a capture has been retrieved and all its segments
\* saved, every segment whose overflow flag the device set has had that
\* fact surfaced.
C10_OverflowSurfaced ==
  (/\ bulkStatus = PICO_OK /\ ~interrupted /\ pending = "none"
   /\ \/ prog = "docs" /\ pc \in {"stop", "close", "done"}
      \/ prog = "t45" /\ pc = "capped") =>
    \A s \in 1 .. NUM_SEGMENTS : overflow[s] # 0 => Surfaced(s)

NotTeardown(c) == c[1] \notin {"Stop", "CloseUnit"}

\* the device calls issued before teardown, in order
Working == SelectSeq(calls, NotTeardown)

\* Stop and, after it, CloseUnit have been called
TornDown ==
  \E j, k \in 1 .. Len(calls) :
    j < k /\ calls[j][1] = "Stop" /\ calls[k][1] = "CloseUnit"

\* the cancellation arrived between two passes of a poll loop: the last
\* working call is a poll and the loop test still asked for another pass
CancelledInPollLoop ==
  /\ interrupted
  /\ Working # << >>
  /\ \/ /\ RapidBlock
        /\ Working[Len(Working)][1] = "IsReady"
        /\ ready = 0
     \/ /\ prog = "sonn"
        /\ Working[Len(Working)][1] = "GetStreamingLatestValues"
        /\ nextSample < totalSamples /\ ~autoStopOuter
        /\ iteration_count < max_iterations

\* C11 as claimed: when an interrupt arrives between iterations of the
\* rapid-block readiness loop or of the streaming poll loop, the device has
\* been stopped and its handle closed by the time the program has ended.
C11_CancellationTeardown ==
  (CancelledInPollLoop /\ Terminal) => TornDown

\* the streaming loop issues one poll per iteration and never more than
\* max_iterations of them, and at the ceiling the loop has been left
C12_PollsBounded ==
  prog = "sonn" =>
    /\ CountCalls("GetStreamingLatestValues") = iteration_count
    /\ iteration_count <= max_iterations
    /\ iteration_count = max_iterations => pc # "poll"

\* C12: the streaming loop always terminates: whatever the device does,
\* also when it never runs the callback and never signals auto-stop, at
\* most max_iterations polls are issued, and a loop that is polling is
\* eventually left.
C12_LoopTerminates ==
  /\ []C12_PollsBounded
  /\ (prog = "sonn" /\ pc = "poll") ~> (pc # "poll")

\* the loop was left at the ceiling by a device that never ran the callback
C12_Witness ==
  /\ prog = "sonn"
  /\ pc = "stop"
  /\ iteration_count = max_iterations
  /\ CountCalls("GetStreamingLatestValues") = max_iterations
  /\ delivered = << >>
  /\ nextSample = 0
  /\ ~autoStopOuter

\* the loop ended at the ceiling, short of the target, with no auto-stop
StreamingStalled ==
  /\ prog = "sonn"
  /\ iteration_count >= max_iterations
  /\ nextSample < totalSamples
  /\ ~autoStopOuter

\* C13 as claimed: a run whose loop ended at the ceiling short of the
\* target and without auto-stop, and whose remaining device calls all
\* succeeded, is not reported as a completed capture: it ends with a
\* StreamingStalled error reaching the caller.
C13_StallSurfaced ==
  (StreamingStalled /\ Terminal /\ ~interrupted /\ error # "PicoError") =>
    error = "StreamingStalled"

round(a, b) == IF 2 * (a % b) >= b THEN (a \div b) + 1 ELSE a \div b

\* full-scale magnitude, in volts, of the range configured on the trigger
\* channel (channel B)
TriggerRangeVolts == channelInputRanges[RANGE_B + 1] \div 1000

\* the maxADC in scope is what the device reported for this session
MaxCodeKnown ==
  /\ maxADC # 0
  /\ \/ prog = "docs" /\ CountCalls("MaximumValue") = 1
     \/ prog = "t45" /\ CountCalls("MaximumValue") >= 1

\* C15 as claimed: every threshold code applied to the device equals
\* round(thresholdVolts * maxCode / rangeVolts), rangeVolts being the
\* full-scale magnitude of the trigger channel and maxCode the device's
\* maximum code.
C15_ThresholdIsRounded ==
  MaxCodeKnown =>
    \A i \in 1 .. Len(calls) :
      calls[i][1] = "SetSimpleTrigger" =>
        calls[i][2] = round(THRESHOLD_V * maxADC,
                            UnitsPerVolt * TriggerRangeVolts)

\* C16 as claimed: every SetSimpleTrigger call comes after a MaximumValue
\* query of the same session, and its threshold code is the conversion of
\* the configured level with the value that query reported.
C16_MaxCodeFromLiveQuery ==
  \A i \in 1 .. Len(calls) :
    calls[i][1] = "SetSimpleTrigger" =>
      /\ \E j \in 1 .. (i - 1) : calls[j][1] = "MaximumValue"
      /\ CountCalls("MaximumValue") = 1 =>
           calls[i][2] = thr_count_of(THRESHOLD_V, maxADC)

\* the threshold conversion has been made with the reported maxADC
Converted ==
  /\ prog = "docs"
  /\ CountCalls("MaximumValue") = 1
  /\ maxADC # 0

Registration(c) == c[1] \in {"SetDataBuffer", "SetDataBuffers"}

\* C18 as claimed: in a rapid-block session (here one whose device calls
\* all succeed) every buffer registration call comes before the first
\* RunBlock, none is issued once a capture has been started, and at arming
\* every registration points at an allocated buffer.
C18_NoRegistrationAfterArming ==
  (RapidBlock /\ ~setupFailed /\ bulkStatus = PICO_OK) =>
    /\ \A i, j \in 1 .. Len(calls) :
         (calls[i][1] = "RunBlock" /\ i < j) => ~Registration(calls[j])
    /\ pc = "runBlock" =>
         \A k \in DOMAIN registered :
           /\ registered[k] # NoBuf
           /\ registered[k][2] < Len(bufs_a)

\* C19 as claimed: at every RunBlock of a session whose setup calls all
\* succeeded, pre-trigger + post-trigger samples is at most
\* min(SAMPLES_PER_SEGMENT, maximum reported by MemorySegments).
C19_ArmWithinClampedCapacity ==
  (RapidBlock /\ ~setupFailed) =>
    \A i \in 1 .. Len(calls) :
      calls[i][1] = "RunBlock" =>
        calls[i][2] + calls[i][3] <= Min(SAMPLES_PER_SEGMENT, seg_max)

\* the device reported fewer samples per segment than configured and the
\* session got as far as allocating its buffers
ClampActive ==
  /\ prog = "docs"
  /\ bufs_a # << >>
  /\ seg_max < SAMPLES_PER_SEGMENT

\* C20 as claimed: whenever the clamp is active the session goes on with
\* NUM_SEGMENTS buffers per channel of the clamped size, and a warning has
\* been emitted.
C20_ClampWarned ==
  ClampActive =>
    /\ n_samples = seg_max
    /\ Len(bufs_a) = NUM_SEGMENTS /\ Len(bufs_b) = NUM_SEGMENTS
    /\ \A k \in 1 .. NUM_SEGMENTS :
         Len(bufs_a[k]) = seg_max /\ Len(bufs_b[k]) = seg_max
    /\ \E m \in printed : m[1] = "WARNING: Need more samples to cover 1ms"

\* the interval the timebase query reported has been printed
IntervalReported == \E m \in printed : m[1] = "Timebase interval ns"

ShortfallWarned ==
  <<"WARNING: Need more samples to cover 1ms", n_samples>> \in printed

\* C21: the samples needed for the 1 ms window are computed from the
\* interval GetTimebase2 reported; the warning is printed exactly when that
\* number exceeds n_samples; after a successful query the session goes on
\* to registering its buffers whether or not it warned, and a session that
\* stopped at the query got a failing status from it.
C21_ShortfallNonFatal ==
  prog = "docs" =>
    /\ \A m \in printed :
         m[1] = "Timebase interval ns" =>
           (ShortfallWarned <=>
              (time_required_ns \div m[2]) + samples_margin > n_samples)
    /\ ShortfallWarned => IntervalReported
    /\ (calls # << >> /\ calls[Len(calls)][1] = "GetTimebase2"
          /\ ~interrupted) =>
         IF IntervalReported
         THEN pc = "setBufA" /\ error = "none"
         ELSE pc = "raised" /\ error = "PicoError"
    /\ (pc = "raised" /\ ~interrupted /\ IntervalReported) =>
         calls[Len(calls)][1] # "GetTimebase2"

\* a session that warned about the shortfall and was armed all the same
C21_Witness ==
  /\ prog = "docs"
  /\ ShortfallWarned
  /\ CountCalls("RunBlock") = 1
  /\ files # << >>

\* the maximum codes the emitted values were converted with
ConversionMaxCodes ==
  UNION {{files[k].rows[i][c][2] : i \in DOMAIN files[k].rows, c \in {2, 3}} :
           k \in DOMAIN files}

\* C22 as claimed: MaximumValue is called at most once in a session, and
\* every emitted value was converted with one and the same maximum code.
C22_MaxCodeQueriedOnce ==
  /\ CountCalls("MaximumValue") <= 1
  /\ Cardinality(ConversionMaxCodes) <= 1

\* full scale of a range in millivolts
RangeMilliVolts(range) == channelInputRanges[range + 1]

\* the fraction v is the whole number r
IsWhole(v, r) == v[2] # 0 /\ v[1] = r * v[2]

\* C23: in every file of the rapid-block script, a sample whose code is the
\* device's maximum code is written as exactly the full scale of its
\* channel's range, one whose code is minus the maximum as exactly minus the
\* full scale, a zero code as 0, and every value has the sign of its code.
C23_ConversionLinear ==
  (prog = "docs" /\ files # << >>) =>
    \A k \in DOMAIN files :
      \A i \in DOMAIN files[k].rows :
        LET code_a == bufs_a[k][i]
            code_b == bufs_b[k][i]
            a == files[k].rows[i][2]
            b == files[k].rows[i][3]
        IN /\ a[2] > 0 /\ b[2] > 0
           /\ code_a = deviceMaxADC => IsWhole(a, RangeMilliVolts(RANGE_A))
           /\ code_b = -deviceMaxADC => IsWhole(b, -RangeMilliVolts(RANGE_B))
           /\ code_a = 0 => IsWhole(a, 0)
           /\ code_b = 0 => IsWhole(b, 0)
           /\ (a[1] > 0) = (code_a > 0) /\ (a[1] < 0) = (code_a < 0)
           /\ (b[1] > 0) = (code_b > 0) /\ (b[1] < 0) = (code_b < 0)

\* a file with a sample at the maximum code, one at minus the maximum and
\* a zero code, written on a device whose maximum code is 32512
C23_Witness ==
  /\ prog = "docs" /\ deviceMaxADC = 32512
  /\ \E k \in DOMAIN files :
       \E i, j \in DOMAIN files[k].rows :
         /\ bufs_a[k][i] = deviceMaxADC /\ bufs_b[k][i] = -deviceMaxADC
         /\ bufs_a[k][j] = 0
         /\ IsWhole(files[k].rows[i][2], RangeMilliVolts(RANGE_A))
         /\ IsWhole(files[k].rows[j][2], 0)

\* C24: once streaming has started, the interval in use is the value
\* RunStreaming wrote back, in microseconds, times 1000, and the time written
\* for the i-th sample (from 0) of every file is i times that interval.
C24_ActualIntervalOnAxis ==
  (prog = "sonn" /\ files # << >>) =>
    /\ \E iv \in SampleIntervals : actualSampleIntervalNs = iv * 1000
    /\ \A k \in DOMAIN files :
         \A i \in DOMAIN files[k].rows :
           files[k].rows[i][1] = (i - 1) * actualSampleIntervalNs

\* the device adjusted the interval, and a window of more than one sample
\* was written with it
C24_Witness ==
  /\ prog = "sonn"
  /\ actualSampleIntervalNs # requestedSampleInterval * 1000
  /\ \E k \in DOMAIN files :
       /\ Len(files[k].rows) > 1
       /\ files[k].rows[2][1] = actualSampleIntervalNs

\* the axis value of row i of file f: a fraction of equal denominators in
\* the rapid-block script with the time axis, a whole number elsewhere
AxisValue(f, i) == IF prog = "docs" THEN f.rows[i][1][1] ELSE f.rows[i][1]

AxisIncreasing ==
  \A k \in DOMAIN files :
    \A i \in 1 .. (Len(files[k].rows) - 1) :
      AxisValue(files[k], i) < AxisValue(files[k], i + 1)

Delivers == Len(delivered') = Len(delivered) + 1

ThresholdOutOfRange ==
  \/ THRESHOLD_V > max_voltage_range * UnitsPerVolt
  \/ THRESHOLD_V < -(max_voltage_range * UnitsPerVolt)

\* C27 as claimed: with a level outside the range of the trigger channel
\* SetSimpleTrigger is never called; every code that is sent to the device
\* is the code computed from the level, and has magnitude at most the
\* maximum code.
C27_OutOfRangeRejected ==
  prog = "docs" =>
    /\ ThresholdOutOfRange => CountCalls("SetSimpleTrigger") = 0
    /\ Converted =>
         \A i \in 1 .. Len(calls) :
           calls[i][1] = "SetSimpleTrigger" =>
             /\ calls[i][2] = thr_count
             /\ thr_count <= maxADC /\ -thr_count <= maxADC

\* the polling loop of the script is running or has just been left for the
\* step after it
AfterPoll ==
  /\ calls # << >>
  /\ calls[Len(calls)][1] \in {"IsReady", "GetStreamingLatestValues"}

\* C28 as claimed: when the last poll of the device returned a status other
\* than PICO_OK the polling loop has ended with an error.
C28_PollErrorEndsLoop ==
  (AfterPoll /\ pollStatus # PICO_OK /\ ~interrupted) =>
    /\ pc \notin {"wait", "poll"}
    /\ error # "none" \/ pending # "none"

\* the range given to the device for channel number ch at configuration
AppliedRange(ch) ==
  LET i == CHOOSE j \in 1 .. Len(calls) :
             calls[j][1] = "SetChannel" /\ calls[j][2] = ch
  IN calls[i][3]

\* the host buffer registered with the device for segment s of channel X
RegisteredBuffer(s, X) ==
  LET b == registered[<<s, X>>]
  IN IF b[1] = "bufs_a" THEN bufs_a[b[2] + 1] ELSE bufs_b[b[2] + 1]

\* the file written for segment s in the current capture
SegmentFile(s) == files[Len(files) - idx + s + 1]

\* C29: in the save loop of a rapid-block capture, the file of every
\* segment s saved so far has as channel A's column the codes of the buffer
\* registered for (s, A), which are the samples the device read back for
\* segment s of channel A when the bulk read succeeded, converted with the
\* range that SetChannel applied to channel A, and the same for channel B.
C29_NoMisattribution ==
  (RapidBlock /\ pc = "save" /\ idx > 0) =>
    \A s \in 0 .. (idx - 1) :
      /\ SegmentFile(s).name = s + 1
      /\ \A i \in DOMAIN SegmentFile(s).rows :
           /\ SegmentFile(s).rows[i][2] =
                <<RegisteredBuffer(s, "A")[i] * RangeMilliVolts(AppliedRange(0)),
                  maxADC>>
           /\ SegmentFile(s).rows[i][3] =
                <<RegisteredBuffer(s, "B")[i] * RangeMilliVolts(AppliedRange(1)),
                  maxADC>>
           /\ (bulkStatus = PICO_OK /\ i <= samples_ret) =>
                /\ RegisteredBuffer(s, "A")[i] =
                     ClippedSample(signal, overflow, s, "A", i - 1)
                /\ RegisteredBuffer(s, "B")[i] =
                     ClippedSample(signal, overflow, s, "B", i - 1)

\* the first segment has been saved and the second is about to be, the two
\* segments and the two channels holding different codes
C29_Witness ==
  /\ prog = "docs" /\ pc = "save" /\ idx = 1
  /\ samples_ret > 0
  /\ bufs_a[1] # bufs_a[2] /\ bufs_a[1] # bufs_b[1]
  /\ AppliedRange(0) # AppliedRange(1)
  /\ SegmentFile(0).rows[1][2][1] =
       bufs_a[1][1] * RangeMilliVolts(AppliedRange(0))

\* C30 as claimed: every bulk retrieval of segments from..to comes after a
\* SetNoOfCaptures call of the session that told the device to collect
\* to - from + 1 captures, and every file written belongs to a segment of
\* that many.
C30_ArmedEqualsRetrieved ==
  RapidBlock =>
    \A i \in 1 .. Len(calls) :
      calls[i][1] = "GetValuesBulk" =>
        /\ calls[i][3] - calls[i][2] + 1 = NUM_SEGMENTS
        /\ \E j \in 1 .. (i - 1) :
             /\ calls[j][1] = "SetNoOfCaptures"
             /\ calls[j][2] = calls[i][3] - calls[i][2] + 1

\* C31 as claimed: in the save loop of a rapid-block capture whose bulk read
\* succeeded, the file of every segment saved so far has at most as many
\* rows as the samples-per-segment count GetValuesBulk wrote back.
C31_RowsWithinReturned ==
  (RapidBlock /\ pc = "save" /\ idx > 0 /\ bulkStatus = PICO_OK) =>
    \A s \in 0 .. (idx - 1) : Len(SegmentFile(s).rows) <= samples_ret

\* the samples of the first n callbacks, added up
RECURSIVE SamplesUpTo(_)
SamplesUpTo(n) ==
  IF n = 0 THEN 0 ELSE SamplesUpTo(n - 1) + delivered[n].noOfSamples

C33_StopThenCloseLast ==
  \A i \in 1 .. Len(calls) :
    calls[i][1] = "CloseUnit" =>
      /\ i = Len(calls)
      /\ i > 1 /\ calls[i - 1][1] = "Stop"

\* the finally block has stopped and closed the device after an interrupt
\* in the capture loop, and the script is over
C33_Witness ==
  /\ prog = "t45" /\ interrupted /\ Terminal
  /\ Len(calls) > 2
  /\ calls[Len(calls)][1] = "CloseUnit"
  /\ calls[Len(calls) - 1][1] = "Stop"
  /\ CountCalls("RunBlock") >= 1

\* every segment has been saved, the device stopped and then closed, and
\* capture_and_save has returned
Completed ==
  /\ pc = "done"
  /\ Len(files) = NUM_SEGMENTS
  /\ \A k \in DOMAIN files : files[k].name = k
  /\ CountCalls("GetValuesBulk") = 1
  /\ Len(calls) >= 2
  /\ calls[Len(calls) - 1][1] = "Stop"
  /\ calls[Len(calls)][1] = "CloseUnit"

\* the statements after the readiness wait loop
PastWait == pc \in {"getBulk", "maxValue2", "save", "stop", "close", "done"}

\* C34: in a run of the single-shot rapid-block script in which no call
\* fails, no interrupt arrives and the device at some time reports ready,
\* eventually all NUM_SEGMENTS segments are retrieved and saved and the
\* device is stopped and closed; in a run in which the device never reports
\* ready, no statement after the wait loop is ever reached.
C34_RapidBlockLiveness ==
  /\ ([](pc # "raised") /\ <>(ready # 0)) => <>Completed
  /\ [](ready = 0) => [](~PastWait)

\* the device reported ready at the second poll, and the capture completed
C34_Witness ==
  /\ prog = "docs"
  /\ Completed
  /\ polls = 2 /\ ready # 0
  /\ ~interrupted

====
